---- MODULE Spec2Model ----
(***************************************************************************)
(* SignalRClient (src/fj_client/client.py): the reconnecting streaming     *)
(* client.  The threads are the caller of start(), the caller of stop(),   *)
(* one thread per WebSocketApp (run_forever, which delivers on_open,       *)
(* on_error and on_close) and one thread per reconnection worker (_do).    *)
(***************************************************************************)
EXTENDS Integers, FiniteSets, Sequences, TLC

\* ---------------------------------------------------------------- bounds
\* WebSocketApp objects that exist at the same time (a finished one whose
\* reference was dropped is garbage and its slot is used again).
MaxWs == 2
\* Reconnection worker threads alive at the same time.
MaxWorkers == 2

\* ------------------------------------------------------ program constants
\* self.max_retries = 2
max_retries == 2

\* ---------------------------------------------------------------- threads
\* The application thread that calls start().
MainThread == 0 - 1
\* The application thread that calls stop().
CtlThread == 0 - 2
Callers == {MainThread, CtlThread}
Workers == 1..MaxWorkers
Threads == Callers \cup Workers
WsIds == 1..MaxWs

VARIABLES
    pc,               \* position of every caller and worker thread
    ws,               \* self.ws: 0 is None, otherwise the WebSocketApp's id
    socks,            \* the WebSocketApp objects and their run_forever threads
    connected_evt,    \* self.connected_evt (threading.Event)
    _stop,            \* self._stop
    _retries,         \* self._retries
    _start_mutex,     \* self._start_mutex: 0 is free, otherwise the holder
    _reconnect_lock,  \* self._reconnect_lock: TRUE is held
    att,              \* per thread: the WebSocketApp its start() call opened
    connection_token, \* self.connection_token: 0 is None
    conn_token,       \* per thread: the local conn_token of its start() call
    woken,            \* per thread: its connected_evt.wait() was notified
    ep_attempts,      \* history: worker start() calls since the last on_open
    queued,           \* history: the thread's start() call found the mutex held
    sleep_stop,       \* history: _stop was set while the worker was in time.sleep
    restarted,        \* history: start() was called explicitly after stop()
    rearmed,          \* history: the last start() call came after a stop()
                      \* call had returned, and no stop() was called since
    ever_open,        \* history: on_open has run
    ever_failed,      \* history: a start() attempt failed before monitoring
    delivered,        \* history: how the last on_message call ended
    stop_hist,        \* history: stop() calls completed, an exception left one
    watch,            \* which history this run records (it never changes)
    input,            \* the argument of a function examined on its own
    output,           \* its result
    now,              \* time.monotonic(), in seconds
    _recent_sends,    \* SlackLogHandler._recent_sends: the times recorded
    posts             \* history: the times at which emit posted to Slack

vars == <<pc, ws, socks, connected_evt, _stop, _retries, _start_mutex,
          _reconnect_lock, att, connection_token, conn_token, woken,
          ep_attempts, queued, sleep_stop,
          restarted, rearmed,
          ever_open, ever_failed, delivered, stop_hist, watch, input, output,
          now, _recent_sends, posts>>

\* The histories a run can record.  A run records one of them, so that the
\* state space is the sum of the observers and not their product.
Watches == {"none", "attempt", "episode", "session", "stop", "queue", "token",
            "handshake", "message", "idem", "rearm", "confirm"}

\* The new value of a history variable: recorded only by the run that
\* watches it.
Rec(k, new, old) == IF watch = k THEN new ELSE old

\* A WebSocketApp slot that open_ws has not filled.  st is the socket
\* (connecting, open, closed), pc the position of its run_forever thread, rd
\* the value of _retries its handler loaded; live, err, sched and skip are
\* history: the start call of its attempt was confirmed, on_error ran, the
\* number of workers its handlers created, a handler of it ran with stop
\* requested, the ceiling reached or a reconnection already under way,
\* its on_open has run, and the status of the response to its start call
\* while the start() call monitors it (0 is none).
NoSock == [st |-> "none", pc |-> "none", rd |-> 0,
           live |-> FALSE, err |-> FALSE, sched |-> 0, skip |-> FALSE,
           opened |-> FALSE, resp |-> 0]

\* No function is examined on its own.
NoInput == [f |-> "none"]
NoOutput == [done |-> FALSE]

\* SlackLogHandler.__init__: self._recent_sends = deque().  The handler is
\* created by the first get_logger call.
SlackInit ==
    /\ now = 0
    /\ _recent_sends = <<>>
    /\ posts = <<>>

\* SignalRClient.__init__
ClientInit ==
    /\ SlackInit
    /\ pc = [t \in Threads |-> IF t \in Callers THEN "idle" ELSE "none"]
    /\ ws = 0
    /\ socks = [i \in WsIds |-> NoSock]
    /\ connected_evt = FALSE
    /\ _stop = FALSE
    /\ _retries = 0
    /\ _start_mutex = 0
    /\ _reconnect_lock = FALSE
    /\ att = [t \in Threads |-> 0]
    /\ connection_token = 0
    /\ conn_token = [t \in Threads |-> 0]
    /\ woken = [t \in Threads |-> FALSE]
    /\ ep_attempts = 0
    /\ queued = [t \in Threads |-> FALSE]
    /\ sleep_stop = [w \in Workers |-> FALSE]
    /\ restarted = FALSE
    /\ rearmed = FALSE
    /\ ever_open = FALSE
    /\ ever_failed = FALSE
    /\ delivered = "none"
    /\ stop_hist = [done |-> 0, exc |-> FALSE]

\* The client after construction, observed by any one history.
Init ==
    /\ ClientInit
    /\ watch \in Watches
    /\ input = NoInput
    /\ output = NoOutput

\* ---------------------------------------------------------------- helpers
\* A slot open_ws can fill: never used, or its thread has ended and neither
\* self.ws nor a running start() refers to it.
FreeSock(i) ==
    /\ socks[i].pc \in {"none", "done"}
    /\ ws # i
    /\ \A t \in Threads : att[t] # i
FreeSocks == {i \in WsIds : FreeSock(i)}
NewSock == CHOOSE i \in FreeSocks : \A j \in FreeSocks : i <= j

\* A worker slot a new thread can take: never used, or its thread has ended.
FreeWorkers == {w \in Workers : pc[w] \in {"none", "done"}}
NewWorker == CHOOSE w \in FreeWorkers : \A v \in FreeWorkers : w <= v

\* WebSocketApp.close(): the socket is closed at once; on_close is delivered
\* later by the run_forever thread.  close() on None raises AttributeError,
\* which every caller swallows.
CloseSock(s, i) ==
    IF i # 0 /\ s[i].st \in {"connecting", "open"}
    THEN [s EXCEPT ![i].st = "closed"]
    ELSE s

\* A mutex that does not exclude: the lock is handed out while it is held.
MutexFree_always(m) == TRUE

\* A mutex that only a worker's call holds: the application's call does not
\* exclude.
MutexFree_workers(m) == m \notin Workers

\* with self._start_mutex: the lock can be taken when nobody holds it.
MutexFree(m) == m = 0

\* if self._retries >= self.max_retries: give up
CeilingReached(r) == r >= max_retries

\* An increment that counts one reconnection twice.
NextRetries_two(r) == r + 2

\* self._retries += 1
NextRetries(r) == r + 1

\* on_open: self._retries = 0
OnOpenRetries == 0

\* A worker that does not look at the stop flag after its sleep.
ShouldReconnect_ignoring(stopflag) == TRUE

\* _do: if not self._stop: self.start()
ShouldReconnect(stopflag) == ~stopflag

\* Where a thread goes when its start() call returns.
AfterStart(t) == IF t \in Callers THEN "idle" ELSE "w_after"

\* The positions inside the body of start(), under the mutex.
StartBody == {"st_negotiate", "st_open", "st_wait", "st_startcall", "st_monitor"}
InBody(t) == pc[t] \in StartBody

\* The history counter saturates one above the ceiling.
Bump(n) == IF n > max_retries THEN n ELSE n + 1

\* The Slack log handler, which is examined on its own.
slack == <<now, _recent_sends, posts>>
\* What no step of the client changes: the observer, the argument and result
\* of a function that is examined on its own, and the Slack log handler.
fixed == <<watch, input, output, slack>>
\* The histories that stop() does not record.
ghosts_but_stop == <<ep_attempts, queued, sleep_stop, restarted, rearmed, ever_open,
                     ever_failed, delivered, fixed>>
ghosts == <<ghosts_but_stop, stop_hist>>
flags == <<connected_evt, _stop, _retries>>
locals == <<att, woken, connection_token, conn_token>>

\* The status codes of the responses to the negotiate and start calls.
StatusOk == 200
Statuses == {StatusOk, 201, 404, 500}

\* The connection tokens the negotiate endpoint hands out.
Tokens == {1, 2}
\* Two tokens are told apart only by the run that observes the tokens.
NegotiatedTokens == IF watch = "token" THEN Tokens ELSE {1}

\* A client that keeps the token of an earlier attempt.
StoredToken_kept(old, new) == IF old # 0 THEN old ELSE new

\* self.connection_token = conn_token
StoredToken(old, new) == new

\* The program state: everything but the histories.
program == <<pc, ws, socks, connected_evt, _stop, _retries, _start_mutex,
             _reconnect_lock, att, connection_token, conn_token, woken>>
\* The client: its program state and the histories.
client == <<program, ep_attempts, queued, sleep_stop, restarted, rearmed, ever_open,
            ever_failed, delivered, stop_hist, watch>>

\* ------------------------------------------------------------ start()
\* The application calls start(); the call waits for the mutex.
CallStart ==
    /\ pc[MainThread] = "idle"
    /\ pc' = [pc EXCEPT ![MainThread] = "st_lock"]
    /\ queued' = Rec("queue", [queued EXCEPT ![MainThread] =
                                  _start_mutex # 0], queued)
    /\ restarted' = Rec("stop", restarted \/ _stop, restarted)
    /\ rearmed' = Rec("rearm", _stop /\ pc[CtlThread] = "idle", rearmed)
    /\ UNCHANGED <<ws, socks, flags, _start_mutex, _reconnect_lock, locals,
                   ep_attempts, sleep_stop, ever_open, ever_failed, delivered,
                   stop_hist, fixed>>

\* with self._start_mutex: ... self.connected_evt.clear()
StartLock(t) ==
    /\ pc[t] = "st_lock"
    /\ MutexFree(_start_mutex)
    /\ _start_mutex' = t
    /\ connected_evt' = FALSE
    /\ pc' = [pc EXCEPT ![t] = "st_negotiate"]
    /\ UNCHANGED <<ws, socks, _stop, _retries, _reconnect_lock, locals, ghosts>>

\* n = do_negotiate(...); conn_token = ...: a token is returned.
NegotiateOk(t) ==
    /\ pc[t] = "st_negotiate"
    /\ FreeSocks # {}
    /\ pc' = [pc EXCEPT ![t] = "st_open"]
    /\ \E tok \in NegotiatedTokens :
          /\ conn_token' = [conn_token EXCEPT ![t] = tok]
          /\ connection_token' = StoredToken(connection_token, tok)
    /\ UNCHANGED <<ws, socks, flags, _start_mutex, _reconnect_lock, att, woken,
                   ghosts>>

\* self.open_ws(self.connection_token)
OpenWs(t) ==
    /\ pc[t] = "st_open"
    /\ FreeSocks # {}
    /\ socks' = [socks EXCEPT ![NewSock] =
                    [NoSock EXCEPT !.st = "connecting", !.pc = "run"]]
    /\ ws' = NewSock
    /\ att' = [att EXCEPT ![t] = NewSock]
    /\ woken' = [woken EXCEPT ![t] = FALSE]
    /\ connected_evt' = FALSE
    /\ pc' = [pc EXCEPT ![t] = "st_wait"]
    /\ UNCHANGED <<_stop, _retries, _start_mutex, _reconnect_lock,
                   connection_token, conn_token, ghosts>>

\* What start() does when it returns: the mutex is released.
Return(t) ==
    /\ pc' = [pc EXCEPT ![t] = AfterStart(t)]
    /\ _start_mutex' = 0
    /\ att' = [att EXCEPT ![t] = 0]
    /\ woken' = [woken EXCEPT ![t] = FALSE]
    /\ conn_token' = [conn_token EXCEPT ![t] = 0]
    /\ queued' = [queued EXCEPT ![t] = FALSE]

\* do_negotiate raises, or the token is missing: except Exception -> return.
NegotiateFail(t) ==
    /\ pc[t] = "st_negotiate"
    /\ Return(t)
    /\ UNCHANGED connection_token
    /\ ever_failed' = Rec("attempt", TRUE, ever_failed)
    /\ UNCHANGED <<ws, socks, flags, _reconnect_lock, ep_attempts, sleep_stop,
                   restarted, rearmed, ever_open, delivered,
                   stop_hist, fixed>>

\* connected_evt.wait(timeout=...) times out (the event was not set when the
\* wait began and no set() has notified it): close the socket, self.ws = None,
\* return.
WaitTimeout(t) ==
    /\ pc[t] = "st_wait"
    /\ ~connected_evt
    /\ ~woken[t]
    /\ socks' = CloseSock(socks, ws)
    /\ ws' = 0
    /\ Return(t)
    /\ UNCHANGED connection_token
    /\ ever_failed' = Rec("attempt", TRUE, ever_failed)
    /\ UNCHANGED <<flags, _reconnect_lock, ep_attempts, sleep_stop, restarted, rearmed,
                   ever_open, delivered,
                   stop_hist, fixed>>

\* connected_evt.wait(timeout=...) returns True: the event is set, or a set()
\* notified the waiter (a later clear() does not take the notification back).
WaitOpened(t) ==
    /\ pc[t] = "st_wait"
    /\ connected_evt \/ woken[t]
    /\ pc' = [pc EXCEPT ![t] = "st_startcall"]
    /\ woken' = [woken EXCEPT ![t] = FALSE]
    /\ UNCHANGED <<ws, socks, flags, _start_mutex, _reconnect_lock, att,
                   connection_token, conn_token, ghosts>>

\* A start() that raises for a response that is not 2xx.
StartCallRaises_checked(status) == status \notin 200..299

\* self.log.info("[start] status %s %s", r.status_code, r.text): the status
\* of the response is logged and nothing else is done with it.
StartCallRaises(status) == FALSE

\* The start-confirmation GET returns a response: start() monitors the
\* session.
StartCallOk(t) ==
    /\ pc[t] = "st_startcall"
    /\ \E status \in Statuses :
          /\ socks' = IF att[t] # 0
                      THEN [socks EXCEPT
                              ![att[t]].live = Rec("session", TRUE, FALSE),
                              ![att[t]].resp = Rec("confirm", status, 0)]
                      ELSE socks
          /\ IF StartCallRaises(status)
             THEN /\ Return(t)
                  /\ UNCHANGED connection_token
             ELSE /\ pc' = [pc EXCEPT ![t] = "st_monitor"]
                  /\ UNCHANGED <<_start_mutex, locals, queued>>
    /\ UNCHANGED <<ws, flags, _reconnect_lock, ep_attempts, sleep_stop,
                   restarted, rearmed, ever_open, ever_failed, delivered,
                   stop_hist, fixed>>

\* The start-confirmation GET raises: except Exception -> return.
StartCallFail(t) ==
    /\ pc[t] = "st_startcall"
    /\ Return(t)
    /\ UNCHANGED connection_token
    /\ ever_failed' = Rec("attempt", TRUE, ever_failed)
    /\ UNCHANGED <<ws, socks, flags, _reconnect_lock, ep_attempts, sleep_stop,
                   restarted, rearmed, ever_open, delivered,
                   stop_hist, fixed>>

\* A monitoring loop that does not look at the stop flag.
MonitorLeaves_closedonly(stopflag, evt) == ~evt

\* if self._stop: return; if not self.connected_evt.is_set(): return
MonitorLeaves(stopflag, evt) == stopflag \/ ~evt

\* while True: ... time.sleep(0.5): a poll of the loop finds a reason to return.
MonitorExit(t) ==
    /\ pc[t] = "st_monitor"
    /\ MonitorLeaves(_stop, connected_evt)
    /\ Return(t)
    /\ UNCHANGED connection_token
    /\ socks' = IF att[t] # 0 THEN [socks EXCEPT ![att[t]].resp = 0] ELSE socks
    /\ UNCHANGED <<ws, flags, _reconnect_lock, ep_attempts, sleep_stop,
                   restarted, rearmed, ever_open, ever_failed, delivered,
                   stop_hist, fixed>>

\* ------------------------------------------------------------- stop()
\* self._stop = True; self.connected_evt.clear()
CallStop ==
    /\ pc[CtlThread] = "idle"
    /\ _stop' = TRUE
    /\ connected_evt' = FALSE
    /\ sleep_stop' = Rec("stop", [w \in Workers |->
                                    sleep_stop[w] \/ pc[w] = "w_sleep"],
                          sleep_stop)
    /\ rearmed' = Rec("rearm", FALSE, rearmed)
    /\ pc' = [pc EXCEPT ![CtlThread] = "sp_check"]
    /\ UNCHANGED <<ws, socks, _retries, _start_mutex, _reconnect_lock, locals,
                   ep_attempts, queued, restarted, ever_open, ever_failed,
                   delivered,
                   stop_hist, fixed>>

\* A completed stop() call is counted, up to two.
StopDone(h) == [h EXCEPT !.done = IF h.done > 1 THEN h.done ELSE h.done + 1]

\* if self.ws:
StopCheck ==
    /\ pc[CtlThread] = "sp_check"
    /\ pc' = [pc EXCEPT ![CtlThread] = IF ws # 0 THEN "sp_close" ELSE "idle"]
    /\ stop_hist' = IF ws # 0 THEN stop_hist
                    ELSE Rec("idem", StopDone(stop_hist), stop_hist)
    /\ UNCHANGED <<ws, socks, flags, _start_mutex, _reconnect_lock, locals,
                   ghosts_but_stop>>

\* A stop() without its except clause: what close() raises leaves stop().
StopEscapes_all(raised) == raised

\* try: self.ws.close() except Exception: pass
StopEscapes(raised) == FALSE

\* self.ws.close(): AttributeError when another thread has set self.ws to
\* None since the test.
StopClose ==
    /\ pc[CtlThread] = "sp_close"
    /\ socks' = CloseSock(socks, ws)
    /\ pc' = [pc EXCEPT ![CtlThread] = "sp_clear"]
    /\ stop_hist' = Rec("idem", [stop_hist EXCEPT
                                    !.exc = stop_hist.exc \/ StopEscapes(ws = 0)],
                        stop_hist)
    /\ UNCHANGED <<ws, flags, _start_mutex, _reconnect_lock, locals,
                   ghosts_but_stop>>

\* finally: self.ws = None; the join of the socket thread and the HTTP
\* session close follow.
StopClear ==
    /\ pc[CtlThread] = "sp_clear"
    /\ ws' = 0
    /\ pc' = [pc EXCEPT ![CtlThread] = "idle"]
    /\ stop_hist' = Rec("idem", StopDone(stop_hist), stop_hist)
    /\ UNCHANGED <<socks, flags, _start_mutex, _reconnect_lock, locals,
                   ghosts_but_stop>>

\* ------------------------------------------------- the WebSocketApp thread
\* The connection is established: on_open runs.
OnOpen(i) ==
    /\ socks[i].st = "connecting"
    /\ socks[i].pc = "run"
    /\ socks' = [socks EXCEPT ![i].st = "open",
                              ![i].opened = Rec("handshake", TRUE, FALSE)]
    /\ connected_evt' = TRUE
    /\ _retries' = OnOpenRetries
    /\ ep_attempts' = 0
    /\ ever_open' = Rec("attempt", TRUE, ever_open)
    /\ woken' = [t \in Threads |-> woken[t] \/ pc[t] = "st_wait"]
    /\ UNCHANGED <<pc, ws, _stop, _start_mutex, _reconnect_lock, att,
                   connection_token, conn_token, queued, sleep_stop, restarted, rearmed,
                   ever_failed, delivered,
                   stop_hist, fixed>>

\* A scheduler that does not look at the stop flag.
ScheduleRefused_lockonly(stopflag, locked) == locked

\* A scheduler that does not take the lock.
ScheduleRefused_stoponly(stopflag, locked) == stopflag

\* if self._stop: return; if not self._reconnect_lock.acquire(blocking=False):
\* return
ScheduleRefused(stopflag, locked) == stopflag \/ locked

\* The position after _schedule_reconnect returns: on_error is followed by
\* on_close, on_close ends the thread, and an on_error that reports an
\* exception of on_message goes back to reading the socket.
AfterSchedule(p) ==
    IF p \in {"run", "err_inc"} THEN "close"
    ELSE IF p \in {"msg", "msg_inc"} THEN "run"
    ELSE "done"

\* A reconnection is under way: a worker has not made its start() attempt
\* yet, or a handler holds the lock and is about to create the worker.
PendingWorker ==
    \/ \E w \in Workers : pc[w] \in {"w_close", "w_sleep", "w_check", "st_lock"}
    \/ \E j \in WsIds : socks[j].pc \in {"err_inc", "close_inc", "msg_inc"}

\* _schedule_reconnect up to the computation of the delay, run by socket i
\* whose record is s: the stop check, the non-blocking acquire, the ceiling
\* check, the load of self._retries.
ScheduleEntry(i, s) ==
    IF ScheduleRefused(_stop, _reconnect_lock)
    THEN /\ socks' = [socks EXCEPT ![i] =
                        [s EXCEPT !.pc = AfterSchedule(s.pc),
                                  !.skip = Rec("session",
                                               s.skip \/ _stop \/ PendingWorker,
                                               FALSE)]]
         /\ UNCHANGED _reconnect_lock
    ELSE IF CeilingReached(_retries)
    THEN /\ socks' = [socks EXCEPT ![i] =
                        [s EXCEPT !.pc = AfterSchedule(s.pc),
                                  !.skip = Rec("session", TRUE, FALSE)]]
         /\ UNCHANGED _reconnect_lock
    ELSE /\ FreeWorkers # {}
         /\ _reconnect_lock' = TRUE
         /\ socks' = [socks EXCEPT ![i] =
                        [s EXCEPT !.pc = IF s.pc = "run" THEN "err_inc"
                                         ELSE IF s.pc = "msg" THEN "msg_inc"
                                         ELSE "close_inc",
                                  !.rd = _retries]]

\* The connection fails or breaks: run_forever calls on_error, which calls
\* _schedule_reconnect.
OnError(i) ==
    /\ socks[i].st \in {"connecting", "open"}
    /\ socks[i].pc = "run"
    /\ ScheduleEntry(i, [socks[i] EXCEPT !.st = "closed",
                                         !.err = Rec("session", TRUE, FALSE)])
    /\ UNCHANGED <<pc, ws, flags, _start_mutex, locals, ghosts>>

\* The peer closed the connection, close() was called on it, or on_error has
\* returned: run_forever calls on_close, which clears the event.
OnClose(i) ==
    /\ \/ socks[i].pc = "run" /\ socks[i].st \in {"open", "closed"}
       \/ socks[i].pc = "close"
    /\ connected_evt' = FALSE
    /\ socks' = [socks EXCEPT ![i].st = "closed", ![i].pc = "close_sr"]
    /\ UNCHANGED <<pc, ws, _stop, _retries, _start_mutex, _reconnect_lock,
                   locals, ghosts>>

\* on_close calls _schedule_reconnect.
OnCloseSchedule(i) ==
    /\ socks[i].pc = "close_sr"
    /\ ScheduleEntry(i, socks[i])
    /\ UNCHANGED <<pc, ws, flags, _start_mutex, locals, ghosts>>

\* The raw messages a session delivers: text that is not JSON, a JSON object,
\* any other JSON value.
Messages == {"garbage", "dict", "other"}

\* How on_message ends for a message and a dispatcher that raises or not:
\* json.loads(message) is outside every try; handler.handle(item) is called
\* for a dict only, inside try/except Exception.
OnMessageOutcome(m, raises) ==
    IF m = "garbage" THEN "raw_exc"
    ELSE IF m = "dict" /\ raises THEN "handler_exc"
    ELSE "ok"

\* An on_message that lets the dispatcher's exception through as well.
Escapes_any(o) == o # "ok"

\* The exception leaves on_message.
Escapes(o) == o = "raw_exc"

\* A message arrives on the open session: on_message runs.  When an exception
\* leaves it, WebSocketApp logs it and, depending on the library version,
\* reports it to on_error, which calls _schedule_reconnect; the socket stays
\* open.
OnMessage(i) ==
    /\ socks[i].st = "open"
    /\ socks[i].pc = "run"
    /\ \E m \in Messages, raises \in BOOLEAN, reported \in BOOLEAN :
          /\ delivered' = Rec("message", OnMessageOutcome(m, raises), delivered)
          /\ IF Escapes(OnMessageOutcome(m, raises)) /\ reported
             THEN ScheduleEntry(i, [socks[i] EXCEPT !.pc = "msg"])
             ELSE UNCHANGED <<socks, _reconnect_lock>>
    /\ UNCHANGED <<pc, ws, flags, _start_mutex, locals, ep_attempts, queued,
                   sleep_stop, restarted, rearmed, ever_open, ever_failed, stop_hist, fixed>>

\* The history of the workers created by the on_error and on_close of a
\* session's fault (not by a reported on_message exception); it saturates
\* at two.
FaultWorkers(s) ==
    IF s.pc = "msg_inc" \/ s.sched > 1 THEN s.sched ELSE s.sched + 1

\* self._retries += 1 (the store), then threading.Thread(target=_do).start()
ScheduleSpawn(i) ==
    /\ socks[i].pc \in {"err_inc", "close_inc", "msg_inc"}
    /\ _retries' = NextRetries(socks[i].rd)
    /\ pc' = [pc EXCEPT ![NewWorker] = "w_close"]
    /\ sleep_stop' = [sleep_stop EXCEPT ![NewWorker] = FALSE]
    /\ socks' = [socks EXCEPT ![i].pc = AfterSchedule(socks[i].pc),
                              ![i].rd = 0,
                              ![i].sched = Rec("session",
                                               FaultWorkers(socks[i]), 0)]
    /\ UNCHANGED <<ws, connected_evt, _stop, _start_mutex, _reconnect_lock,
                   locals, ep_attempts, queued, restarted, rearmed, ever_open,
                   ever_failed, delivered,
                   stop_hist, fixed>>

\* ------------------------------------------------ the reconnection worker
\* _do: if self.ws: self.ws.close()
WorkerClose(w) ==
    /\ pc[w] = "w_close"
    /\ socks' = CloseSock(socks, ws)
    /\ pc' = [pc EXCEPT ![w] = "w_sleep"]
    /\ UNCHANGED <<ws, flags, _start_mutex, _reconnect_lock, locals, ghosts>>

\* time.sleep(delay) elapses.
WorkerSleep(w) ==
    /\ pc[w] = "w_sleep"
    /\ pc' = [pc EXCEPT ![w] = "w_check"]
    /\ UNCHANGED <<ws, socks, flags, _start_mutex, _reconnect_lock, locals,
                   ghosts>>

\* if not self._stop: self.start(); otherwise finally: release the lock.
WorkerCheck(w) ==
    /\ pc[w] = "w_check"
    /\ IF ShouldReconnect(_stop)
       THEN /\ pc' = [pc EXCEPT ![w] = "st_lock"]
            /\ queued' = Rec("queue", [queued EXCEPT ![w] =
                                          _start_mutex # 0], queued)
            /\ ep_attempts' = Rec("episode", Bump(ep_attempts), ep_attempts)
            /\ UNCHANGED _reconnect_lock
       ELSE /\ pc' = [pc EXCEPT ![w] = "done"]
            /\ _reconnect_lock' = FALSE
            /\ UNCHANGED <<queued, ep_attempts>>
    /\ UNCHANGED <<ws, socks, flags, _start_mutex, locals, sleep_stop, restarted, rearmed,
                   ever_open, ever_failed, delivered,
                   stop_hist, fixed>>

\* start() has returned: success = connected_evt.is_set(); finally: release.
WorkerAfter(w) ==
    /\ pc[w] = "w_after"
    /\ pc' = [pc EXCEPT ![w] = "done"]
    /\ _reconnect_lock' = FALSE
    /\ UNCHANGED <<ws, socks, flags, _start_mutex, locals, ghosts>>

\* ------------------------------------------------- the backoff delay
\* Durations are counted in quarters of a second.
\* self.backoff_base = 1.0
backoff_base == 4
\* self.max_backoff = 30.0
max_backoff == 120

\* The largest retry counter value the delay is computed for.
MaxK == 7

Min(a, b) == IF a <= b THEN a ELSE b
RECURSIVE Pow2(_)
Pow2(n) == IF n = 0 THEN 1 ELSE 2 * Pow2(n - 1)

\* base_delay = min(self.max_backoff, self.backoff_base * (2 ** self._retries))
BaseDelay(k) == Min(max_backoff, backoff_base * Pow2(k))

\* jitter = random.uniform(0, 0.25 * base_delay): the values on the
\* quarter-second grid, both ends included.
Jitters(k) == 0..(BaseDelay(k) \div 4)

\* A delay without the final cap.
Delay_uncapped(k, jitter) == BaseDelay(k) + jitter

\* delay = min(self.max_backoff, base_delay + jitter)
Delay(k, jitter) == Min(max_backoff, BaseDelay(k) + jitter)

BackoffInputs ==
    {[f |-> "delay", k |-> k, jitter |-> j] : k \in 0..MaxK, j \in 0..(max_backoff \div 4)}

\* The retry counter value and the jitter of one delay computation.
InitBackoff ==
    /\ ClientInit
    /\ watch = "none"
    /\ input \in {x \in BackoffInputs : x.jitter \in Jitters(x.k)}
    /\ output = NoOutput

\* _schedule_reconnect computes the delay.
ComputeDelay ==
    /\ input.f = "delay"
    /\ ~output.done
    /\ output' = [done |-> TRUE, val |-> Delay(input.k, input.jitter)]
    /\ UNCHANGED <<client, input, slack>>

NextBackoff == ComputeDelay
SpecBackoff == InitBackoff /\ [][NextBackoff]_vars

\* ------------------------------------------- utils.py: JSON extraction
\* A text is a sequence of characters.  None is no text.
None == <<"None">>
Quote == "\""

\* The nesting depth of the JSON values the functions are examined on.
MaxDepth == 2

\* str.strip()
RECURSIVE LStrip(_)
LStrip(t) == IF t # <<>> /\ Head(t) = " " THEN LStrip(Tail(t)) ELSE t
RECURSIVE RStrip(_)
RStrip(t) ==
    IF t # <<>> /\ t[Len(t)] = " " THEN RStrip(SubSeq(t, 1, Len(t) - 1)) ELSE t
Strip(t) == RStrip(LStrip(t))

\* c in text, text.index(c), text.rindex(c), text.endswith(c)
Has(t, c) == \E p \in 1..Len(t) : t[p] = c
Index(t, c) == CHOOSE p \in 1..Len(t) : t[p] = c /\ \A q \in 1..(p - 1) : t[q] # c
\* A search from the left where the code searches from the right.
RIndex_first(t, c) == Index(t, c)
RIndex(t, c) == CHOOSE p \in 1..Len(t) : t[p] = c /\ \A q \in (p + 1)..Len(t) : t[q] # c
EndsWith(t, c) == t # <<>> /\ t[Len(t)] = c

\* The character that closes what character c opens.
Closer(c) == IF c = "{" THEN "}" ELSE "]"

\* JSON_RE matches at position p: an opening brace or bracket with its own
\* kind of closing character somewhere after it.
MatchesAt(t, p) ==
    /\ t[p] \in {"{", "["}
    /\ \E q \in (p + 1)..Len(t) : t[q] = Closer(t[p])

\* JSON_RE.search(text) and m.group(1): JSON_RE is (\{.*?\}|\[.*?\]) with
\* DOTALL, so the leftmost match, ended by the first closing character of its
\* kind.
JsonReSearch(t) ==
    IF \E p \in 1..Len(t) : MatchesAt(t, p)
    THEN LET p == CHOOSE x \in 1..Len(t) :
                      MatchesAt(t, x) /\ \A y \in 1..(x - 1) : ~MatchesAt(t, y)
             q == CHOOSE x \in (p + 1)..Len(t) :
                      /\ t[x] = Closer(t[p])
                      /\ \A y \in (p + 1)..(x - 1) : t[y] # Closer(t[p])
         IN SubSeq(t, p, q)
    ELSE None

\* The text left after the first match of JSON_RE: the next match is searched
\* from the end of the one before.
AfterMatch(t) ==
    LET p == CHOOSE x \in 1..Len(t) :
                 MatchesAt(t, x) /\ \A y \in 1..(x - 1) : ~MatchesAt(t, y)
    IN SubSeq(t, p + Len(JsonReSearch(t)), Len(t))

\* JSON_RE.findall(raw): the matches from left to right, none overlapping.
RECURSIVE FindAll(_)
FindAll(t) ==
    IF JsonReSearch(t) = None THEN <<>>
    ELSE <<JsonReSearch(t)>> \o FindAll(AfterMatch(t))

\* extract_json_from_jsonp(text)
ExtractAfterStrip(t) ==
    IF Has(t, "(") /\ EndsWith(t, ")")
    THEN SubSeq(t, Index(t, "(") + 1, RIndex(t, ")") - 1)
    ELSE JsonReSearch(t)
extract_json_from_jsonp(text) == ExtractAfterStrip(Strip(text))

\* JSON values with what json.loads makes of them: the text, the kind of the
\* value, its class as a token value (a non-empty string, a falsy value,
\* another truthy value) and, for an object, the class of
\* n.get("ConnectionToken") or n.get("ConnectionId").
JsonVal(t, k, v, tok) == [text |-> t, kind |-> k, val |-> v, tok |-> tok]
Scalars ==
    { JsonVal(<<"1">>, "scalar", "other", "falsy"),
      JsonVal(<<Quote, "a", Quote>>, "scalar", "str", "falsy"),
      JsonVal(<<Quote, Quote>>, "scalar", "falsy", "falsy"),
      JsonVal(<<Quote, "}", Quote>>, "scalar", "str", "falsy") }
\* Member names: T is ConnectionToken, I is ConnectionId, a is any other.
KeyNames == {"T", "I", "a"}
Key(k) == <<Quote, k, Quote, ":">>
\* a or b
PyOr(a, b) == IF a # "falsy" THEN a ELSE b
\* The class of n.get(name) in an object with the one member k: v.
Get1(name, k, v) == IF k = name THEN v.val ELSE "falsy"
\* The same in an object with the members k1: v1, k2: v2.
Get2(name, k1, v1, k2, v2) ==
    IF k2 = name THEN v2.val ELSE IF k1 = name THEN v1.val ELSE "falsy"
RECURSIVE JsonValues(_)
JsonValues(d) ==
    IF d = 0 THEN Scalars
    ELSE LET V == JsonValues(d - 1) IN
         V \cup { JsonVal(<<"[", "]">>, "list", "falsy", "falsy"),
                  JsonVal(<<"{", "}">>, "dict", "falsy", "falsy") }
           \cup { JsonVal(<<"[">> \o v.text \o <<"]">>, "list", "other", "falsy") :
                     v \in V }
           \cup { JsonVal(<<"{">> \o Key(k) \o v.text \o <<"}">>, "dict", "other",
                          PyOr(Get1("T", k, v), Get1("I", k, v))) :
                     k \in KeyNames, v \in V }
           \cup { JsonVal(<<"{">> \o Key(m[1]) \o m[2].text \o <<",">>
                              \o Key(m[3]) \o m[4].text \o <<"}">>,
                          "dict", "other",
                          PyOr(Get2("T", m[1], m[2], m[3], m[4]),
                               Get2("I", m[1], m[2], m[3], m[4]))) :
                     m \in {x \in KeyNames \X Scalars \X KeyNames \X Scalars :
                               x[1] # x[3]} }
AllJson == JsonValues(MaxDepth)
\* The plain JSON bodies: objects and arrays.
PlainBodies == {v \in AllJson : v.kind \in {"dict", "list"}}

\* The text handed to extract_json_from_jsonp: a plain JSON body.
InitExtract ==
    /\ ClientInit
    /\ watch = "none"
    /\ input \in {[f |-> "extract", text |-> v.text] : v \in PlainBodies}
    /\ output = NoOutput

\* extract_json_from_jsonp is called.
ExtractJson ==
    /\ input.f = "extract"
    /\ ~output.done
    /\ output' = [done |-> TRUE, val |-> extract_json_from_jsonp(input.text)]
    /\ UNCHANGED <<client, input, slack>>

NextExtract == ExtractJson
SpecExtract == InitExtract /\ [][NextExtract]_vars

\* JSON payloads with parentheses inside their string values.
ParenStrings == { <<Quote, "(", Quote>>, <<Quote, ")", Quote>>,
                  <<Quote, ")", "(", Quote>> }
ParenJson ==
    ParenStrings \cup { <<"[">> \o x \o <<"]">> : x \in ParenStrings }
                 \cup { <<"{">> \o Key("a") \o x \o <<"}">> : x \in ParenStrings }
\* The payloads of the JSONP bodies and the callback names.
JsonpPayloads == {v.text : v \in AllJson} \cup ParenJson
JsonpNames == { <<"c">>, <<"c", "b">> }
Jsonp(name, x) == name \o <<"(">> \o x \o <<")">>

\* The text handed to extract_json_from_jsonp: a JSONP body name(X).
InitJsonp ==
    /\ ClientInit
    /\ watch = "none"
    /\ input \in {[f |-> "extract", text |-> Jsonp(n, x), payload |-> x] :
                      n \in JsonpNames, x \in JsonpPayloads}
    /\ output = NoOutput

SpecJsonp == InitJsonp /\ [][NextExtract]_vars

\* ------------------------------------------- utils.py: frame decoding
\* An entry of the result: the decoded value of a fragment (named by its
\* text), or the {"raw": text} placeholder.
Parsed(it) == [kind |-> "parsed", text |-> it]
Raw(it) == [kind |-> "raw", text |-> it]

\* A decoder that drops the fragment that does not parse.
Placeholder_dropped(it) == <<>>

\* except Exception: parsed.append({"raw": it})
Placeholder(it) == <<Raw(it)>>

\* The loop of parse_signalr_frame over the fragments found.
RECURSIVE ParseItems(_)
ParseItems(items) ==
    IF items = <<>> THEN <<>>
    ELSE (IF \E v \in AllJson : v.text = Head(items)
          THEN <<Parsed(Head(items))>>
          ELSE Placeholder(Head(items))) \o ParseItems(Tail(items))

\* parse_signalr_frame(raw)
parse_signalr_frame(raw) == ParseItems(FindAll(raw))

\* The fragments a frame is made of: flat and nested objects and arrays, an
\* object with a closing brace in a string, a candidate that is no JSON, and
\* one that is cut off before its closing brace.
Fragment(t, ok) == [text |-> t, valid |-> ok]
Fragments ==
    { Fragment(<<"{">> \o Key("a") \o <<"1", "}">>, TRUE),
      Fragment(<<"[", "1", "]">>, TRUE),
      Fragment(<<"[", "[", "1", "]", "]">>, TRUE),
      Fragment(<<"{">> \o Key("a") \o <<"{", "}", "}">>, TRUE),
      Fragment(<<"{">> \o Key("a") \o <<Quote, "}", Quote, "}">>, TRUE),
      Fragment(<<"{", "x", "}">>, FALSE),
      Fragment(<<"{", "x">>, FALSE) }
\* The noise between the fragments.
Noises == { <<>>, <<"x">> }
\* The number of fragments of a frame.
MaxFrags == 2

\* The frames of n fragments, each with the noise before it, and the noise
\* at the end.
RECURSIVE FramesOf(_)
FramesOf(n) ==
    IF n = 0 THEN {[text |-> z, units |-> <<>>] : z \in Noises}
    ELSE {[text |-> z \o u.text \o fr.text, units |-> <<u>> \o fr.units] :
             z \in Noises, u \in Fragments, fr \in FramesOf(n - 1)}
Frames == UNION {FramesOf(n) : n \in 0..MaxFrags}

\* The streaming payload handed to parse_signalr_frame.
InitFrame ==
    /\ ClientInit
    /\ watch = "none"
    /\ input \in {[f |-> "frame", text |-> fr.text, units |-> fr.units] :
                      fr \in Frames}
    /\ output = NoOutput

\* parse_signalr_frame is called.
ParseFrame ==
    /\ input.f = "frame"
    /\ ~output.done
    /\ output' = [done |-> TRUE, val |-> parse_signalr_frame(input.text)]
    /\ UNCHANGED <<client, input, slack>>

NextFrame == ParseFrame
SpecFrame == InitFrame /\ [][NextFrame]_vars

\* ---------------------------------------------- client.py: the handshake
\* Bodies that hold no JSON at all.
Garbage ==
    { JsonVal(<<>>, "invalid", "falsy", "falsy"),
      JsonVal(<<"x">>, "invalid", "falsy", "falsy") }
\* The body of the response: the payload as plain JSON, or as JSONP c(...).
Wraps == {"plain", "jsonp"}
Body(v, wrap) ==
    IF wrap = "jsonp" THEN <<"c", "(">> \o v.text \o <<")">> ELSE v.text

\* json.loads(body): the value whose text body is; a body that is the text of
\* no value raises.
JsonLoads(body) ==
    IF \E v \in AllJson : v.text = body
    THEN CHOOSE v \in AllJson : v.text = body
    ELSE JsonVal(body, "invalid", "falsy", "falsy")

\* do_negotiate: the decoded payload, or "raise".
do_negotiate(status, text) ==
    IF status # StatusOk THEN "raise"
    ELSE LET body == extract_json_from_jsonp(text) IN
         IF body = None \/ body = <<>> THEN "raise"
         ELSE IF JsonLoads(body).kind = "invalid" THEN "raise"
         ELSE "decoded"

\* The handshake of start(): do_negotiate, the token, and open_ws up to the
\* creation of the WebSocketApp.  Every exception is caught by start()'s
\* except Exception, which logs and returns: "error".  Otherwise a session
\* is opened: "session".
Handshake(status, text) ==
    IF do_negotiate(status, text) = "raise" THEN "error"
    ELSE LET n == JsonLoads(extract_json_from_jsonp(text)) IN
         IF n.kind # "dict" THEN "error"          \* n.get: AttributeError
         ELSE IF n.tok = "falsy" THEN "error"     \* if not conn_token: raise
         ELSE IF n.tok # "str" THEN "error"       \* quote(token): TypeError
         ELSE "session"

InitNegotiate ==
    /\ ClientInit
    /\ watch = "none"
    /\ input \in {[f |-> "negotiate", status |-> st, payload |-> v,
                    text |-> Body(v, w)] :
                      st \in Statuses, v \in AllJson \cup Garbage, w \in Wraps}
    /\ output = NoOutput

\* start() runs its handshake on the response.
Negotiate ==
    /\ input.f = "negotiate"
    /\ ~output.done
    /\ output' = [done |-> TRUE, val |-> Handshake(input.status, input.text)]
    /\ UNCHANGED <<client, input, slack>>

NextNegotiate == Negotiate
SpecNegotiate == InitNegotiate /\ [][NextNegotiate]_vars

\* ------------------------------------------- client.py: the dispatch
\* The class of a decoded message among Messages.
MessageClass(item) ==
    IF item.kind = "invalid" THEN "garbage"
    ELSE IF item.kind = "dict" THEN "dict"
    ELSE "other"

\* A dispatch that does not look at the type of the item.
Dispatched_any(item, handler) == handler /\ item.kind # "invalid"

\* if self.handler and isinstance(item, dict):
Dispatched(item, handler) == handler /\ item.kind = "dict"

\* The arguments of the handler.handle calls one on_message call makes:
\* item = json.loads(message) raises before any call; otherwise one call with
\* item when a handler is configured and item is a dict.
HandleCalls(message, handler) ==
    IF Dispatched(JsonLoads(message), handler) THEN <<JsonLoads(message)>>
    ELSE <<>>

\* The raw message, whether a handler is configured and whether it raises.
InitDispatch ==
    /\ ClientInit
    /\ watch = "none"
    /\ input \in {[f |-> "message", text |-> v.text, payload |-> v,
                    handler |-> h, raises |-> r] :
                      v \in AllJson \cup Garbage, h \in BOOLEAN, r \in BOOLEAN}
    /\ output = NoOutput

\* on_message is called.
Dispatch ==
    /\ input.f = "message"
    /\ ~output.done
    /\ output' = [done |-> TRUE,
                  val |-> HandleCalls(input.text, input.handler),
                  end |-> OnMessageOutcome(MessageClass(JsonLoads(input.text)),
                                           input.handler /\ input.raises)]
    /\ UNCHANGED <<client, input, slack>>

NextDispatch == Dispatch
SpecDispatch == InitDispatch /\ [][NextDispatch]_vars

\* ------------------------------------------------------------------ Next
Next ==
    \/ CallStart
    \/ CallStop
    \/ StopCheck
    \/ StopClose
    \/ StopClear
    \/ \E t \in Threads : StartLock(t)
    \/ \E t \in Threads : NegotiateOk(t)
    \/ \E t \in Threads : NegotiateFail(t)
    \/ \E t \in Threads : OpenWs(t)
    \/ \E t \in Threads : WaitOpened(t)
    \/ \E t \in Threads : WaitTimeout(t)
    \/ \E t \in Threads : StartCallOk(t)
    \/ \E t \in Threads : StartCallFail(t)
    \/ \E t \in Threads : MonitorExit(t)
    \/ \E i \in WsIds : OnOpen(i)
    \/ \E i \in WsIds : OnMessage(i)
    \/ \E i \in WsIds : OnError(i)
    \/ \E i \in WsIds : OnClose(i)
    \/ \E i \in WsIds : OnCloseSchedule(i)
    \/ \E i \in WsIds : ScheduleSpawn(i)
    \/ \E w \in Workers : WorkerClose(w)
    \/ \E w \in Workers : WorkerSleep(w)
    \/ \E w \in Workers : WorkerCheck(w)
    \/ \E w \in Workers : WorkerAfter(w)

Spec == Init /\ [][Next]_vars

\* ------------------------------------------- logger.py: SlackLogHandler
\* The largest rate_limit_per_minute argument that is examined.
MaxLimit == 2
\* The last reading of the clock that is examined.
MaxNow == 122
\* one_min_ago = now - 60.0
Window == 60
\* The seconds that pass between two log records (two records can also come
\* at the same reading of the clock).
Elapses == {20, 40, 61}

\* self.rate_limit_per_minute = max(1, rate_limit_per_minute)
RateLimit(arg) == IF arg > 1 THEN arg ELSE 1

\* self._recent_sends[0] < one_min_ago
Expired(t, at) == t < at - Window
\* while self._recent_sends and self._recent_sends[0] < one_min_ago:
\*     self._recent_sends.popleft()
RECURSIVE Expire(_, _)
Expire(q, at) ==
    IF q # <<>> /\ Expired(Head(q), at) THEN Expire(Tail(q), at) ELSE q

\* A test that lets one send more through.
LimitReached_over(n, limit) == n > limit

\* if len(self._recent_sends) >= self.rate_limit_per_minute: return False
LimitReached(n, limit) == n >= limit

\* _allow_send at clock reading at, with deque q: the answer, and the deque
\* it leaves.
_allow_send(q, at, limit) ==
    IF LimitReached(Len(Expire(q, at)), limit)
    THEN [ok |-> FALSE, recent |-> Expire(q, at)]
    ELSE [ok |-> TRUE, recent |-> Append(Expire(q, at), at)]

\* The handler SlackLogHandler(webhook_url, rate_limit_per_minute=...): the
\* webhook is set or not, the argument is any small number.
InitSlack ==
    /\ ClientInit
    /\ watch = "none"
    /\ input \in {[f |-> "slack", webhook_url |-> u, rate_limit_per_minute |-> n] :
                      u \in BOOLEAN, n \in 0..MaxLimit}
    /\ output = NoOutput

\* emit(record), called by logging under the handler's lock.  The record is
\* flagged or not, at the handler's level or below it, and formatting it
\* raises or not.  output is the answer of _allow_send when emit called it.
Emit ==
    /\ input.f = "slack"
    /\ \E flagged, severe, raises \in BOOLEAN :
          IF ~input.webhook_url \/ (~flagged /\ ~severe)
          THEN /\ output' = NoOutput
               /\ UNCHANGED <<_recent_sends, posts>>
          ELSE /\ _recent_sends' =
                     _allow_send(_recent_sends, now,
                                 RateLimit(input.rate_limit_per_minute)).recent
               /\ output' =
                     [done |-> TRUE,
                      val |-> _allow_send(_recent_sends, now,
                                  RateLimit(input.rate_limit_per_minute)).ok]
               /\ posts' =
                     IF /\ _allow_send(_recent_sends, now,
                               RateLimit(input.rate_limit_per_minute)).ok
                        /\ ~raises
                     THEN Append(posts, now)
                     ELSE posts
    /\ UNCHANGED <<client, input, now>>

\* Time passes between two records.
Tick ==
    /\ input.f = "slack"
    /\ \E d \in Elapses :
          /\ now + d <= MaxNow
          /\ now' = now + d
    /\ UNCHANGED <<client, input, output, _recent_sends, posts>>

NextSlack == Emit \/ Tick
SpecSlack == InitSlack /\ [][NextSlack]_vars

\* One specification per recorded history: the client after construction,
\* observed by one history.
InitPlain == Init /\ watch = "none"
InitAttempt == Init /\ watch = "attempt"
InitEpisode == Init /\ watch = "episode"
InitSession == Init /\ watch = "session"
InitStop == Init /\ watch = "stop"
InitQueue == Init /\ watch = "queue"
InitToken == Init /\ watch = "token"
InitHandshake == Init /\ watch = "handshake"
InitMessage == Init /\ watch = "message"
InitIdem == Init /\ watch = "idem"
InitRearm == Init /\ watch = "rearm"
InitConfirm == Init /\ watch = "confirm"
SpecPlain == InitPlain /\ [][Next]_vars
SpecAttempt == InitAttempt /\ [][Next]_vars
SpecEpisode == InitEpisode /\ [][Next]_vars
SpecSession == InitSession /\ [][Next]_vars
SpecStop == InitStop /\ [][Next]_vars
SpecQueue == InitQueue /\ [][Next]_vars
SpecToken == InitToken /\ [][Next]_vars
SpecHandshake == InitHandshake /\ [][Next]_vars
SpecMessage == InitMessage /\ [][Next]_vars
SpecIdem == InitIdem /\ [][Next]_vars
SpecRearm == InitRearm /\ [][Next]_vars
SpecConfirm == InitConfirm /\ [][Next]_vars

\* The monitoring loop of start() polls every half second: a thread in it
\* that has a reason to return does return.
MonitorFair == \A t \in Threads : WF_vars(MonitorExit(t))
SpecLive == InitPlain /\ [][Next]_vars /\ MonitorFair

\* ------------------------------------------------------------ the claims
\* Every caller and worker thread is outside start(), stop() and _do.
ThreadsIdle == \A t \in Threads : pc[t] \in {"idle", "none", "done"}
\* Every WebSocketApp thread has ended.
SockThreadsEnded == \A i \in WsIds : socks[i].pc \in {"none", "done"}
\* No WebSocketApp thread is inside a callback.
NoCallback == \A i \in WsIds : socks[i].pc \in {"none", "run", "done"}
\* A start() call is in its monitoring loop on session i: the session is Live.
Monitored(i) == \E t \in Threads : att[t] = i /\ pc[t] = "st_monitor"
\* A session event is still to be handled by _schedule_reconnect.
PendingEvent ==
    \E j \in WsIds : \/ socks[j].pc \in {"close", "close_sr"}
                     \/ socks[j].pc = "run" /\ socks[j].st = "closed"
\* This step is socket i's on_error or on_close entering _schedule_reconnect.
HandlerEntry(i) ==
    \/ socks[i].pc = "run" /\ socks'[i].pc \in {"close", "err_inc", "msg_inc"}
    \/ socks[i].pc = "close_sr" /\ socks'[i].pc \in {"done", "close_inc"}
\* This step is a start() call of thread t failing before it monitors.
AttemptFails(t) ==
    /\ pc[t] \in {"st_negotiate", "st_wait", "st_startcall"}
    /\ pc'[t] = AfterStart(t)
\* This step is a start() call reaching Live: the start call is confirmed.
LiveStep == \E t \in Threads : pc[t] = "st_startcall" /\ pc'[t] = "st_monitor"
\* This step is on_open of some socket.
OpenStep == \E i \in WsIds : socks[i].st = "connecting" /\ socks'[i].st = "open"
\* This step is socket i's handler storing the counter and creating a worker.
SpawnStep(i) ==
    /\ socks[i].pc \in {"err_inc", "close_inc", "msg_inc"}
    /\ socks'[i].pc \notin {"err_inc", "close_inc", "msg_inc"}

\* C1: an on_error or on_close event of a Live session, with stop not
\* requested, leaves the client Reconnecting (the handler schedules a worker,
\* or a worker is already pending) or GivenUp (the ceiling is reached); it is
\* never absorbed.
C1_EventNeverAbsorbed ==
    [][\A i \in WsIds :
          (HandlerEntry(i) /\ Monitored(i) /\ ~_stop) =>
              \/ socks'[i].pc \in {"err_inc", "close_inc"}
              \/ ~_reconnect_lock /\ CeilingReached(_retries)
              \/ PendingWorker]_vars

\* C2: when a start() attempt fails before Live (negotiate raises, the open
\* wait times out, the start call raises) and stop is not requested, the
\* client is Reconnecting (a worker is pending or a session event is still to
\* be handled) or GivenUp.
C2_FailedAttemptReconnects ==
    [][\A t \in Threads :
          (AttemptFails(t) /\ ~_stop) =>
              \/ PendingWorker'
              \/ PendingEvent'
              \/ CeilingReached(_retries')]_vars

\* C3: if every attempt fails (no on_open ever) and stop is never requested,
\* the client does not come to rest with the retry counter below max_retries
\* and no attempt pending.
C3_NoStallBelowCeiling ==
    (ThreadsIdle /\ SockThreadsEnded /\ ~_stop /\ ever_failed /\ ~ever_open)
        => CeilingReached(_retries)

\* C4: between two on_open events the reconnection workers make at most
\* max_retries start() attempts.
C4_AttemptsPerEpisode == ep_attempts <= max_retries

\* C5: on_error followed by on_close of one Live session, with stop not
\* requested, the ceiling not reached and no reconnection already under way
\* when they ran, creates exactly one worker.
C5_OneEpisodePerFault ==
    \A i \in WsIds :
        (socks[i].pc = "done" /\ socks[i].live /\ socks[i].err /\ ~socks[i].skip)
            => socks[i].sched = 1

\* C6: when stop() sets the flag while a worker is in its backoff sleep, that
\* worker never enters start() afterwards (no negotiate, no new WebSocket),
\* and the stop request stays in force.
C6_StopDuringBackoff ==
    \A w \in Workers : sleep_stop[w] => (_stop /\ pc[w] \in {"w_sleep", "w_check", "done"})
\* A worker whose sleep was overtaken by stop() has finished without start().
C6_Witness == \E w \in Workers : sleep_stop[w] /\ pc[w] = "done"

\* C7: after stop() has returned and every thread has finished what it was
\* doing (and start() was not called again), no WebSocket session is open.
C7_StopClosesSession ==
    (_stop /\ ~restarted /\ ThreadsIdle /\ NoCallback)
        => \A i \in WsIds : socks[i].st # "open"

\* C8: at most one WebSocket session is open at any time.
C8_OneLiveSession == Cardinality({i \in WsIds : socks[i].st = "open"}) <= 1

\* C9 as stated: a start() call made while another is in flight never enters
\* the body of start() (it returns without a handshake, it is not queued).
C9_ReentrantStartNoOp == \A t \in Threads : queued[t] => ~InBody(t)

\* C9 as amended: a start() call made while another is in flight runs its
\* body only while it holds the mutex and no other call is in the body: it
\* waits for the first call to return and then performs its own handshake.
C9_ReentrantStartQueued ==
    \A t \in Threads :
        (queued[t] /\ InBody(t)) =>
            /\ _start_mutex = t
            /\ \A u \in Threads \ {t} : ~InBody(u)
\* A call that found the mutex held is now waiting for its own session.
C9_Witness == \E t \in Threads : queued[t] /\ pc[t] = "st_wait"

\* C10 as stated: the counter is set to 0 exactly on the transition into Live
\* and grows by exactly 1 on each scheduled reconnection, with no other change.
C10_ResetOnLive ==
    [][/\ LiveStep => _retries' = 0
       /\ _retries' # _retries =>
             \/ LiveStep /\ _retries' = 0
             \/ \E i \in WsIds : SpawnStep(i) /\ _retries' = _retries + 1]_vars

\* C10 as amended: the counter is set to 0 exactly by on_open (the session
\* reaches Open) and every scheduled reconnection stores the value its handler
\* loaded plus 1; there is no other change.
C10_ResetOnOpen ==
    [][/\ OpenStep => _retries' = 0
       /\ \A i \in WsIds : SpawnStep(i) => _retries' = socks[i].rd + 1
       /\ _retries' # _retries => (OpenStep \/ \E i \in WsIds : SpawnStep(i))]_vars
\* on_open has reset a counter that a reconnection had raised: the worker's
\* own attempt is monitoring its session.
C10_Witness == \E w \in Workers : pc[w] = "st_monitor" /\ _retries = 0

\* C11: an on_error or on_close that enters _schedule_reconnect after stop()
\* has set the flag leaves the retry counter, the reconnect lock and every
\* caller and worker thread (no new worker) unchanged.
C11_NoScheduleAfterStop ==
    [][\A i \in WsIds :
          (HandlerEntry(i) /\ _stop) =>
              /\ _retries' = _retries
              /\ _reconnect_lock' = _reconnect_lock
              /\ pc' = pc]_vars
\* Both callbacks of a session have run after stop(): the lock is free, the
\* ceiling is not reached and no worker was ever created.
C11_Witness ==
    /\ _stop /\ ~_reconnect_lock /\ ~CeilingReached(_retries)
    /\ \A w \in Workers : pc[w] = "none"
    /\ \E i \in WsIds : socks[i].pc = "done"

\* C12: an explicit start() made when the retry counter is at the ceiling
\* (GivenUp) sets the counter to 0 when it begins its attempt.
C12_StartRearms ==
    [][\A t \in Callers :
          (pc[t] = "st_lock" /\ pc'[t] = "st_negotiate" /\ CeilingReached(_retries))
              => _retries' = 0]_vars

\* This step is thread t's start() call running open_ws.
OpenWsStep(t) == pc[t] = "st_open" /\ pc'[t] = "st_wait"
\* This step is thread t's start() call issuing the start-confirmation GET.
StartCallStep(t) == pc[t] = "st_startcall" /\ pc'[t] # "st_startcall"
\* This step is thread t's start() call giving up its wait for on_open.
TimeoutStep(t) == pc[t] = "st_wait" /\ pc'[t] = AfterStart(t)

\* C13: open_ws and the start-confirmation GET use the token that the
\* do_negotiate call of the same start() attempt returned.
C13_TokenOfSameAttempt ==
    [][\A t \in Threads :
          (OpenWsStep(t) \/ StartCallStep(t)) =>
              /\ conn_token[t] # 0
              /\ connection_token = conn_token[t]]_vars
\* A reconnection worker's attempt (a later attempt) monitors a session that
\* it opened with the second token.
C13_Witness ==
    \E w \in Workers :
        pc[w] = "st_monitor" /\ conn_token[w] = 2 /\ connection_token = 2

\* C14: the start-confirmation GET is issued only after the WebSocket opened
\* by the same start() attempt has reached Open, and a wait that times out
\* leaves that WebSocket closed and returns.
C14_StartCallAfterOpen ==
    [][\A t \in Threads :
          /\ StartCallStep(t) => socks[att[t]].opened
          /\ TimeoutStep(t) => socks'[att[t]].st = "closed"]_vars


\* C15: no on_message call ends with an exception leaving it (a message that
\* is not decodable JSON included).
C15_MalformedMessageContained == delivered # "raw_exc"

\* C16: an on_message call in which handler.handle raises changes nothing:
\* not the event, not the retry counter, not the lock, no thread, no session.
C16_HandlerExceptionCaught ==
    [][(delivered' = "handler_exc" /\ delivered # "handler_exc")
          => UNCHANGED program]_vars
\* The last on_message call ended with the dispatcher's exception caught.
C16_Witness == delivered = "handler_exc"

\* C19: the delay computed for retry counter k lies between
\* min(max_backoff, backoff_base*2^k) and min(max_backoff,
\* 1.25*backoff_base*2^k) for every jitter, never exceeds max_backoff, and is
\* not above any delay computed for k + 1.
C19_DelayBounds ==
    output.done =>
        /\ Min(max_backoff, backoff_base * Pow2(input.k)) <= output.val
        /\ output.val <= max_backoff
        /\ 4 * output.val <= 5 * backoff_base * Pow2(input.k)
        /\ \A j \in Jitters(input.k + 1) : output.val <= Delay(input.k + 1, j)
\* A delay has been computed with the largest jitter where the cap applies.
C19_Witness ==
    /\ output.done
    /\ backoff_base * Pow2(input.k) > max_backoff
    /\ input.jitter = BaseDelay(input.k) \div 4

\* This step is a stop() call returning.
StopReturns == stop_hist'.done > stop_hist.done
\* The state a stop() call leaves when nothing runs beside it: the flag set,
\* the event clear, no WebSocket reference.
Stopped == _stop /\ ~connected_evt /\ ws = 0

\* C18: no exception leaves stop() (also with no WebSocket, a closed one, or
\* a reference set to None by another thread); a stop() call returns with the
\* flag set and no WebSocket reference; and a stop() call whose steps find the
\* state a first call left changes nothing but the caller's position.
C18_StopIdempotent ==
    [][/\ ~stop_hist'.exc
       /\ StopReturns => (_stop' /\ ws' = 0)
       /\ (/\ stop_hist.done > 0 /\ Stopped
           /\ pc[CtlThread] \in {"idle", "sp_check"}
           /\ pc'[CtlThread] # pc[CtlThread]) =>
             /\ UNCHANGED <<ws, socks, connected_evt, _stop, _retries,
                            _start_mutex, _reconnect_lock, att, connection_token,
                            conn_token, woken>>
             /\ \A t \in Threads \ {CtlThread} : pc'[t] = pc[t]
             /\ pc'[CtlThread] \in {"sp_check", "idle"}]_vars
\* A second stop() call has returned and left the state of the first.
C18_Witness == stop_hist.done = 2 /\ Stopped /\ pc[CtlThread] = "idle"

\* C20: for every plain JSON body X (an object or an array),
\* extract_json_from_jsonp(X) is X.
C20_PlainJsonUnchanged == output.done => output.val = input.text

\* C17: the handshake succeeds exactly when the negotiate response has a 2xx
\* status, its body holds a decodable payload, and the payload is an object
\* with a non-empty ConnectionToken or ConnectionId; every other response
\* ends in an error that start() contains.
C17_HandshakeExactly ==
    output.done =>
        /\ output.val \in {"session", "error"}
        /\ (output.val = "session") <=>
               /\ input.status \in 200..299
               /\ input.payload.kind = "dict"
               /\ input.payload.tok = "str"

\* C21: for every JSONP body name(X), with name an identifier and X a JSON
\* payload that may contain parentheses, extract_json_from_jsonp(name(X)) is X.
C21_JsonpRoundTrip == output.done => output.val = input.payload
\* The payload of a JSONP body with a closing parenthesis in it came back.
C21_Witness ==
    /\ output.done
    /\ Has(input.payload, ")")
    /\ output.val = input.payload

\* C22: for a payload of N valid object/array fragments (nested ones
\* included) with noise between them, parse_signalr_frame returns N decoded
\* results, the i-th being the i-th fragment.
C22_OneResultPerFragment ==
    (output.done /\ \A i \in 1..Len(input.units) : input.units[i].valid) =>
        output.val = [i \in 1..Len(input.units) |-> Parsed(input.units[i].text)]

\* A fragment in which JSON_RE finds exactly itself.
Flat(u) == FindAll(u.text) = <<u.text>>

\* C24: the result of parse_signalr_frame has one entry per candidate
\* fragment found, in order: the decoded value when the candidate parses, the
\* {"raw": text} placeholder of that candidate when it does not.  So in a
\* frame of flat fragments every fragment has its entry at its position,
\* whether its siblings parse or not.
C24_PlaceholderKeepsSiblings ==
    output.done =>
        /\ Len(output.val) = Len(FindAll(input.text))
        /\ \A i \in 1..Len(output.val) :
              /\ output.val[i].text = FindAll(input.text)[i]
              /\ output.val[i].kind = "raw" <=>
                     ~\E v \in AllJson : v.text = output.val[i].text
        /\ (\A i \in 1..Len(input.units) : Flat(input.units[i])) =>
              output.val = [i \in 1..Len(input.units) |->
                               IF input.units[i].valid
                               THEN Parsed(input.units[i].text)
                               ELSE Raw(input.units[i].text)]
\* A frame whose first fragment does not parse and whose second does has
\* been decoded to the placeholder followed by the value.
C24_Witness ==
    /\ output.done
    /\ Len(input.units) = 2
    /\ ~input.units[1].valid /\ input.units[2].valid
    /\ Len(output.val) = 2
    /\ output.val[1].kind = "raw" /\ output.val[2].kind = "parsed"

\* C23: an on_message whose raw payload decodes to a JSON object calls
\* handler.handle exactly once, with the decoded object; for a payload that
\* decodes to another value (or to none), or with no handler configured,
\* handle is not called.
C23_DispatchOnce ==
    output.done =>
        IF input.payload.kind = "dict" /\ input.handler
        THEN output.val = <<input.payload>>
        ELSE output.val = <<>>
\* A non-empty object has been handed to the handler, once.
C23_Witness ==
    /\ output.done
    /\ input.payload.kind = "dict" /\ Len(input.text) > 2
    /\ output.val = <<input.payload>>

\* C25: an explicit start() made after stop() has returned withdraws the
\* stop request when it begins its attempt (Stopped to Connecting), so that
\* the session it establishes is monitored and its events schedule
\* reconnection.
C25_StartAfterStopRearms ==
    [][(/\ pc[MainThread] = "st_lock" /\ pc'[MainThread] = "st_negotiate"
        /\ rearmed) => ~_stop']_vars

\* C26: when the start-confirmation GET returns a response, whatever its
\* status, start() goes on to monitor the session, and the step changes
\* neither the retry counter nor the reconnect lock nor any other thread.
C26_StartStatusIgnored ==
    [][\A t \in Threads :
          (StartCallStep(t) /\ socks'[att[t]].resp # 0) =>
              /\ pc'[t] = "st_monitor"
              /\ \A u \in Threads \ {t} : pc'[u] = pc[u]
              /\ UNCHANGED <<_retries, _reconnect_lock, connected_evt, ws>>]_vars
\* A start() call monitors a session whose start call was answered with a
\* status that is not 2xx.
C26_Witness ==
    \E t \in Threads :
        /\ pc[t] = "st_monitor"
        /\ socks[att[t]].resp \notin 200..299
        /\ socks[att[t]].resp # 0

\* A reconnection worker is about to sleep or sleeping.
BeforeOrInSleep(w) == pc[w] \in {"w_close", "w_sleep"}

\* C27: in every state in which a reconnection worker is sleeping or about to
\* sleep the counter includes that attempt (it is at least 1), and
\* 0 <= _retries <= max_retries always.
C27_CounterIncludesAttempt ==
    /\ _retries \in 0..max_retries
    /\ \A w \in Workers : BeforeOrInSleep(w) => _retries >= 1

\* What holds of the counter: it is stored, with the attempt included, in
\* the step that creates the worker, before the worker sleeps, and
\* 0 <= _retries <= max_retries always.
IncrementBeforeSleep ==
    [][/\ _retries \in 0..max_retries
       /\ _retries' \in 0..max_retries
       /\ \A w \in Workers :
             (~BeforeOrInSleep(w) /\ BeforeOrInSleep(w)') =>
                 /\ pc'[w] = "w_close"
                 /\ _retries' >= 1
                 /\ \E i \in WsIds : SpawnStep(i) /\ _retries' = socks[i].rd + 1]_vars

\* WebSocket i is superseded: a newer open_ws has replaced it in self.ws, and
\* the session of that newer WebSocket is open.
Superseded(i) ==
    /\ socks[i].pc \notin {"none", "done"}
    /\ ws \notin {0, i}
    /\ socks[ws].st = "open"
\* This step is socket i's on_close clearing the event.
CloseStep(i) == socks[i].pc \in {"run", "close"} /\ socks'[i].pc = "close_sr"

\* C28: an on_close or on_error of a superseded WebSocket does not clear the
\* Open signal of the current session (so the monitoring start() does not
\* return) and schedules no reconnection (whose worker would close the
\* current session).
C28_EventsOfOwnSession ==
    [][\A i \in WsIds :
          /\ (CloseStep(i) /\ Superseded(i)) => connected_evt' = connected_evt
          /\ (HandlerEntry(i) /\ Superseded(i)) =>
                 socks'[i].pc \notin {"err_inc", "close_inc", "msg_inc"}]_vars

\* A start() call is in its monitoring loop (one call at most: the loop runs
\* under the start mutex).
Monitoring == \E t \in Threads : pc[t] = "st_monitor"

\* C29: when stop() has been called while a start() call is monitoring a
\* session, that start() call eventually returns and releases the start
\* mutex.
C29_MonitorEndsAfterStop ==
    (_stop /\ Monitoring) ~> (~Monitoring /\ _start_mutex = 0)
\* stop() has just set the flag while a start() call monitors its open
\* session.
C29_Witness ==
    /\ _stop /\ pc[CtlThread] = "sp_check"
    /\ \E t \in Threads :
          pc[t] = "st_monitor" /\ _start_mutex = t /\ socks[att[t]].st = "open"

\* The reconnection workers that exist, and the handlers that hold the lock
\* and are about to create one.
ActiveWorkers == {w \in Workers : pc[w] \notin {"none", "done"}}
Scheduling == {i \in WsIds : socks[i].pc \in {"err_inc", "close_inc", "msg_inc"}}
LockHolders == Cardinality(ActiveWorkers) + Cardinality(Scheduling)

InStart == {t \in Threads : InBody(t)}

\* C31: no two threads execute the body of start() at the same time: the
\* thread in the body is the holder of _start_mutex, a thread enters the body
\* only when no thread is in it, every step of the body is taken by the
\* holder, and the mutex is released only by the holder's return.
C31_StartExclusive ==
    /\ [](/\ Cardinality(InStart) <= 1
          /\ \A t \in Threads : InBody(t) <=> _start_mutex = t)
    /\ [][/\ \A t \in Threads :
               (~InBody(t) /\ InBody(t)') =>
                   /\ InStart = {}
                   /\ pc[t] = "st_lock"
                   /\ pc'[t] = "st_negotiate"
          /\ \A t \in Threads :
               (InBody(t) /\ pc'[t] # pc[t]) =>
                   /\ _start_mutex = t
                   /\ \A u \in Threads \ {t} : ~InBody(u) /\ ~InBody(u)'
          /\ (_start_mutex # 0 /\ _start_mutex' # _start_mutex) =>
                 /\ _start_mutex' = 0
                 /\ InBody(_start_mutex)
                 /\ pc'[_start_mutex] = AfterStart(_start_mutex)]_vars
\* A second caller waits for the mutex while the first call monitors its
\* open session.
C31_Witness ==
    \E t, u \in Threads :
        /\ t # u
        /\ pc[t] = "st_monitor"
        /\ att[t] # 0
        /\ socks[att[t]].st = "open"
        /\ pc[u] = "st_lock"

\* The posts to Slack in the 60 seconds that begin at a.
PostsIn(a) == {i \in DOMAIN posts : posts[i] \in a..(a + Window)}
\* The sends recorded in the last 60 seconds.
Recorded == {i \in DOMAIN _recent_sends : _recent_sends[i] >= now - Window}
\* This step is an emit that called _allow_send.
AllowStep == now' = now /\ output'.done

\* C32: the handler posts at most rate_limit_per_minute messages in any
\* 60-second window; when rate_limit_per_minute sends are recorded in the
\* last 60 seconds _allow_send returns False and appends nothing, and emit
\* posts only at the time of a call of _allow_send that returned True.
C32_RateLimited ==
    /\ [](input.f = "slack" =>
            \A a \in 0..now :
                Cardinality(PostsIn(a)) <= RateLimit(input.rate_limit_per_minute))
    /\ [][input.f = "slack" =>
            /\ (AllowStep /\ Cardinality(Recorded) >=
                                 RateLimit(input.rate_limit_per_minute)) =>
                   /\ ~output'.val
                   /\ \E k \in 0..Len(_recent_sends) :
                         _recent_sends' =
                             SubSeq(_recent_sends, k + 1, Len(_recent_sends))
                   /\ posts' = posts
            /\ posts' # posts =>
                   /\ AllowStep
                   /\ output'.val
                   /\ posts' = Append(posts, now)]_vars
\* A send is refused after more messages than the limit were posted: earlier
\* sends have left the window and the window is full again.
C32_Witness ==
    /\ input.f = "slack"
    /\ output.done
    /\ ~output.val
    /\ Len(posts) > RateLimit(input.rate_limit_per_minute)
    /\ Len(_recent_sends) = RateLimit(input.rate_limit_per_minute)

====
